---- MODULE Spec2Model ----
(***************************************************************************)
(* The CoT mapping system (src/cot-mapping-system): the ingestion of a     *)
(* spreadsheet batch into the cot_mappings table, through the upload       *)
(* endpoint (main.py) and through the email polling worker                 *)
(* (email_processor.py), each on its own SQLAlchemy session                *)
(* (database.py: autocommit=False, autoflush=False), and the start/stop    *)
(* life cycle of the polling thread.                                       *)
(***************************************************************************)
EXTENDS Integers, Sequences, FiniteSets, TLC

VARIABLES
    cot_mappings,     \* committed rows of table cot_mappings, in id order
    processing_logs,  \* committed rows of table processing_logs, in id order
    email_config,     \* committed rows of table email_config
    mailbox,          \* the IMAP folder: messages with their \Seen flag
    uploads,          \* files the client is going to POST to /upload-excel/
    up,               \* the upload_excel request being handled
    wk,               \* the monitor_emails threads, by thread
    is_running,       \* EmailProcessor.is_running
    monitor_thread,   \* EmailProcessor.monitor_thread
    req               \* the start/stop monitoring requests being handled

vars == <<cot_mappings, processing_logs, email_config, mailbox, uploads, up, wk,
          is_running, monitor_thread, req>>

(***************************************************************************)
(* Values.  A spreadsheet cell is a string, NaN (an empty cell, as pandas  *)
(* reads it) or BAD (a value the database driver cannot bind, so that a    *)
(* query using it raises).  row.get() of a column the sheet does not have  *)
(* is None.  NULL is the SQL null.                                         *)
(***************************************************************************)
NaN  == "NaN"
None == "None"
NULL == "NULL"
BAD  == "BAD"

\* Rows per batch.
MaxRows == 2

(***************************************************************************)
(* Column headers.  A raw header is its text in lower case, whether it is  *)
(* padded with blanks and whether it has capitals.                         *)
(***************************************************************************)
Col(t) == [text |-> t, pad |-> FALSE, upper |-> FALSE]
Raw(t) == [text |-> t, pad |-> TRUE, upper |-> TRUE]

strip(h) == [h EXCEPT !.pad = FALSE]
lower(h) == [h EXCEPT !.upper = FALSE]

\* df.columns.str.strip().str.lower()
clean_columns(headers) == {lower(strip(h)) : h \in headers}

column_mapping ==
    [c \in {Col("ic channel"), Col("ic cot"), Col("new channel"), Col("new cot"),
            Col("notes")} |->
        CASE c = Col("ic channel")  -> Col("ic_channel")
          [] c = Col("ic cot")      -> Col("ic_cot")
          [] c = Col("new channel") -> Col("new_channel")
          [] c = Col("new cot")     -> Col("new_cot")
          [] OTHER                  -> Col("notes")]

\* for old_col, new_col in column_mapping.items(): df.rename(...)
rename_columns(columns) ==
    {IF c \in DOMAIN column_mapping THEN column_mapping[c] ELSE c : c \in columns}

\* The columns of the DataFrame after cleaning and mapping.
normalize_columns(headers) == rename_columns(clean_columns(headers))

required_columns == {"ic_channel", "ic_cot", "new_channel", "new_cot"}

missing_columns(columns) == {c \in required_columns : Col(c) \notin columns}

\* row.get(col): the cell, or None when the sheet has no such column.
RowGet(df, i, col) ==
    IF Col(col) \in df.columns THEN df.rows[i][col] ELSE None

isna(v) == v \in {NaN, None}

\* What a bound parameter becomes in the table: NaN and None are stored as NULL.
ToDb(v) == IF isna(v) THEN NULL ELSE v

(***************************************************************************)
(* Queries.  column == value: None compiles to IS NULL, NaN is bound as    *)
(* NULL and "= NULL" is true of no row.                                    *)
(***************************************************************************)
SqlEq(c, p) ==
    IF p = None THEN c = NULL
    ELSE IF p = NaN THEN FALSE
    ELSE c = p

\* The lookup with a filter on ic_channel alone.
MatchingIdsByChannel(table, ch, cot) ==
    {i \in DOMAIN table : SqlEq(table[i].ic_channel, ch)}

\* db.query(CoTMapping).filter(ic_channel == ..., ic_cot == ...): the ids matched.
\* The session does not autoflush: only committed rows are seen.
MatchingIds(table, ch, cot) ==
    {i \in DOMAIN table : SqlEq(table[i].ic_channel, ch) /\ SqlEq(table[i].ic_cot, cot)}

\* .first(): some matching row (no ORDER BY), or 0 for None.
FirstOf(ids) == IF ids = {} THEN {0} ELSE ids

existing_values(table, col) == {table[i][col] : i \in DOMAIN table} \ {NULL}

\* set(df[col].dropna().unique())
file_values(df, col) == {df.rows[i][col] : i \in DOMAIN df.rows} \ {NaN}

\* The file values alone, the existing values not taken away.
NovelInFile(df, table, col) == file_values(df, col)

\* The file values of a column less the existing values of the other column.
NovelCrossed(df, table, col) ==
    file_values(df, col)
        \ existing_values(table, IF col = "new_channel" THEN "new_cot" ELSE "new_channel")

\* file values - existing values, for one column
Novel(df, table, col) == file_values(df, col) \ existing_values(table, col)

\* CoTProcessor.identify_new_items and EmailProcessor._identify_new_items
identify_new_items(df, table) ==
    [new_channels |-> Novel(df, table, "new_channel"),
     new_cots     |-> Novel(df, table, "new_cot")]

(***************************************************************************)
(* Sessions (SessionLocal).  Changes stay in the session until commit():   *)
(* dirty holds, by id, the rows it has assigned to (as loaded and as they  *)
(* are now), new the added CoTMapping objects,                             *)
(* logs the added ProcessingLog objects.  A commit that fails rolls the    *)
(* transaction back and leaves the session inactive: until rollback() is   *)
(* called (the code never calls it) every query and commit on it raises.   *)
(***************************************************************************)
NewSession == [state |-> "active", dirty |-> <<>>, new |-> <<>>, logs |-> <<>>]

Pending(s) == DOMAIN s.dirty # {} \/ s.new # <<>> \/ s.logs # <<>>

\* The UPDATE of one row: only the columns whose value differs from the one the
\* session loaded are written, the others keep what the table holds.
Updated(current, d) ==
    [col \in DOMAIN current |->
        IF d.new[col] # d.loaded[col] THEN d.new[col] ELSE current[col]]

\* The table once the session's pending mapping changes are written.
Flushed(table, s) ==
    [i \in DOMAIN table |->
        IF i \in DOMAIN s.dirty THEN Updated(table[i], s.dirty[i]) ELSE table[i]]
        \o s.new

\* db.commit() with the store accepting it (ok) or not.
session_commit(s, table, logs, ok) ==
    IF s.state = "inactive"
    THEN [db |-> s, mappings |-> table, logs |-> logs, raised |-> TRUE]
    ELSE IF ok
    THEN [db |-> NewSession, mappings |-> Flushed(table, s), logs |-> logs \o s.logs,
          raised |-> FALSE]
    ELSE [db |-> [NewSession EXCEPT !.state = "inactive"], mappings |-> table,
          logs |-> logs, raised |-> TRUE]

\* db.add(obj)
session_add_log(s, log) == [s EXCEPT !.logs = Append(@, log)]

(***************************************************************************)
(* Exceptions, results, log entries.                                       *)
(***************************************************************************)
Exc(t)        == [type |-> t, missing |-> {}]
NoExc         == Exc("none")
ValueError(m) == [type |-> "ValueError: Missing required columns", missing |-> m]
KeyError(c)   == [type |-> "KeyError", missing |-> {c}]

NoResult ==
    [total_records |-> 0, records_inserted |-> 0, records_updated |-> 0,
     records_skipped |-> 0, new_channels_found |-> 0, new_cots_found |-> 0,
     new_channels |-> {}, new_cots |-> {}, returned |-> FALSE]

\* The SUCCESS entry with the two counts of novel values left at their default.
SuccessLogUncounted(file_name, sender, result, skipped) ==
    [file_name |-> file_name, email_sender |-> sender,
     total_records |-> result.total_records,
     new_channels_found |-> 0, new_cots_found |-> 0,
     records_inserted |-> result.records_inserted,
     records_updated |-> result.records_updated,
     records_skipped |-> skipped,
     processing_status |-> "SUCCESS", error_details |-> NoExc,
     new_channels_list |-> result.new_channels, new_cots_list |-> result.new_cots,
     processed_at |-> 0]

\* ProcessingLog(...) with the column defaults of models.py for what is not given.
\* processed_at is kept as the number of days the entry is old: 0 when written.
SuccessLog(file_name, sender, result, skipped) ==
    [file_name |-> file_name, email_sender |-> sender,
     total_records |-> result.total_records,
     new_channels_found |-> result.new_channels_found,
     new_cots_found |-> result.new_cots_found,
     records_inserted |-> result.records_inserted,
     records_updated |-> result.records_updated,
     records_skipped |-> skipped,
     processing_status |-> "SUCCESS", error_details |-> NoExc,
     new_channels_list |-> result.new_channels, new_cots_list |-> result.new_cots,
     processed_at |-> 0]

ErrorLog(file_name, sender, e) ==
    [file_name |-> file_name, email_sender |-> sender,
     total_records |-> 0, new_channels_found |-> 0, new_cots_found |-> 0,
     records_inserted |-> 0, records_updated |-> 0, records_skipped |-> 0,
     processing_status |-> "ERROR", error_details |-> e,
     new_channels_list |-> {}, new_cots_list |-> {}, processed_at |-> 0]

(***************************************************************************)
(* The ingestion procedure, one row at a time.  c is the state of the      *)
(* running call: the DataFrame df, the row index i, the session db, the    *)
(* novelty lists new_items and the counters.                               *)
(***************************************************************************)
\* pd.read_excel + the cleaning and mapping of the column names
dataframe(f) == [columns |-> normalize_columns(f.headers), rows |-> f.rows]

\* The CoTMapping(...) of row i when a value counts as new only in the first row
\* of the batch that carries it.
MappingOfFirstOnly(df, i, new_items, source_file) ==
    [ic_channel     |-> ToDb(RowGet(df, i, "ic_channel")),
     ic_cot         |-> ToDb(RowGet(df, i, "ic_cot")),
     new_channel    |-> ToDb(RowGet(df, i, "new_channel")),
     new_cot        |-> ToDb(RowGet(df, i, "new_cot")),
     is_new_channel |-> /\ RowGet(df, i, "new_channel") \in new_items.new_channels
                        /\ \A j \in 1..(i - 1) :
                               RowGet(df, j, "new_channel") # RowGet(df, i, "new_channel"),
     is_new_cot     |-> /\ RowGet(df, i, "new_cot") \in new_items.new_cots
                        /\ \A j \in 1..(i - 1) :
                               RowGet(df, j, "new_cot") # RowGet(df, i, "new_cot"),
     notes          |-> ToDb(RowGet(df, i, "notes")),
     processed_date |-> "now",
     source_file    |-> source_file]

\* The CoTMapping(...) built from row i.
MappingOf(df, i, new_items, source_file) ==
    [ic_channel     |-> ToDb(RowGet(df, i, "ic_channel")),
     ic_cot         |-> ToDb(RowGet(df, i, "ic_cot")),
     new_channel    |-> ToDb(RowGet(df, i, "new_channel")),
     new_cot        |-> ToDb(RowGet(df, i, "new_cot")),
     is_new_channel |-> RowGet(df, i, "new_channel") \in new_items.new_channels,
     is_new_cot     |-> RowGet(df, i, "new_cot") \in new_items.new_cots,
     notes          |-> ToDb(RowGet(df, i, "notes")),
     processed_date |-> "now",
     source_file    |-> source_file]

\* An update under which a flag once set stays set.
UpdateOfSticky(existing, m) ==
    [m EXCEPT !.ic_channel = existing.ic_channel, !.ic_cot = existing.ic_cot,
              !.is_new_channel = existing.is_new_channel \/ @,
              !.is_new_cot = existing.is_new_cot \/ @]

\* existing.new_channel = ...; the identity columns are not assigned.
UpdateOf(existing, m) ==
    [m EXCEPT !.ic_channel = existing.ic_channel, !.ic_cot = existing.ic_cot]

\* The lookup query of a row raises when a key value cannot be bound.
LookupRaises(df, i) ==
    BAD \in {RowGet(df, i, "ic_channel"), RowGet(df, i, "ic_cot")}

\* The test with "and": only a row lacking both identity columns is skipped.
MissingBoth(df, i) ==
    isna(RowGet(df, i, "ic_channel")) /\ isna(RowGet(df, i, "ic_cot"))

\* if pd.isna(row.get('ic_channel')) or pd.isna(row.get('ic_cot'))
MissingIdentity(df, i) ==
    isna(RowGet(df, i, "ic_channel")) \/ isna(RowGet(df, i, "ic_cot"))

\* The update or insert of row i, e being the id .first() returned (0: None).
Upsert(c, table, e) ==
    LET m == MappingOf(c.df, c.i, c.new_items, c.file.file_name) IN
    IF e # 0
    THEN [c EXCEPT !.db.dirty =
                       (e :> [loaded |-> IF e \in DOMAIN c.db.dirty
                                         THEN c.db.dirty[e].loaded ELSE table[e],
                              new    |-> UpdateOf(table[e], m)]) @@ @,
                   !.records_updated = @ + 1]
    ELSE [c EXCEPT !.db.new = Append(@, m),
                   !.records_inserted = @ + 1]

\* The loop turn with an except branch that only continues, as in _process_cot_data.
process_excel_data_row_uncounted(c, table, e) ==
    IF MissingIdentity(c.df, c.i) THEN [c EXCEPT !.records_skipped = @ + 1]
    ELSE IF LookupRaises(c.df, c.i) THEN c
    ELSE Upsert(c, table, e)

\* The loop turn without its try: the error of a row ends the loop.
process_excel_data_row_raising(c, table, e) ==
    IF MissingIdentity(c.df, c.i) THEN [c EXCEPT !.records_skipped = @ + 1]
    ELSE IF LookupRaises(c.df, c.i)
    THEN [c EXCEPT !.exc = Exc("row error"), !.i = Len(c.df.rows)]
    ELSE Upsert(c, table, e)

\* One turn of the loop of CoTProcessor.process_excel_data.
process_excel_data_row(c, table, e) ==
    IF MissingIdentity(c.df, c.i) THEN [c EXCEPT !.records_skipped = @ + 1]
    ELSE IF LookupRaises(c.df, c.i) THEN [c EXCEPT !.records_skipped = @ + 1]
    ELSE Upsert(c, table, e)

\* One turn of the loop of EmailProcessor._process_cot_data.
process_cot_data_row(c, table, e) ==
    IF LookupRaises(c.df, c.i) THEN c
    ELSE Upsert(c, table, e)

\* The dict process_excel_data returns.
process_excel_data_result(c) ==
    [total_records      |-> Len(c.df.rows),
     records_inserted   |-> c.records_inserted,
     records_updated    |-> c.records_updated,
     records_skipped    |-> c.records_skipped,
     new_channels_found |-> Cardinality(c.new_items.new_channels),
     new_cots_found     |-> Cardinality(c.new_items.new_cots),
     new_channels       |-> c.new_items.new_channels,
     new_cots           |-> c.new_items.new_cots,
     returned           |-> TRUE]

\* The dict _process_cot_data returns: it has no records_skipped.
process_cot_data_result(c) ==
    [process_excel_data_result(c) EXCEPT !.records_skipped = 0]

\* The id .first() may return for row i of the call c.
FirstIds(c, table) ==
    FirstOf(MatchingIds(table, RowGet(c.df, c.i, "ic_channel"),
                        RowGet(c.df, c.i, "ic_cot")))

NoFile == [file_name |-> "", readable |-> FALSE, headers |-> {}, rows |-> <<>>,
           sender |-> ""]

\* A call that has not started.
NoCall ==
    [file |-> NoFile, df |-> [columns |-> {}, rows |-> <<>>],
     db |-> NewSession,
     new_items |-> [new_channels |-> {}, new_cots |-> {}],
     i |-> 1, records_inserted |-> 0, records_updated |-> 0, records_skipped |-> 0,
     result |-> NoResult, exc |-> NoExc,
     table0 |-> <<>>, logs0 |-> 0]

\* The call once the rows are done or while they are being done.
AfterRow(c) ==
    [c EXCEPT !.i = @ + 1,
              !.pc = IF c.i + 1 > Len(c.df.rows) THEN "commit" ELSE "rows"]

(***************************************************************************)
(* POST /upload-excel/ (main.py, upload_excel).                            *)
(***************************************************************************)
\* file.filename.endswith(('.xlsx', '.xls'))
ExcelNames == {"cot.xlsx", "old.xls"}

UploadIdle == NoCall @@ [pc |-> "idle", response |-> 0]

\* The request arrives: extension check, read, parse, column validation and
\* identify_new_items.
upload_excel ==
    /\ up.pc \in {"idle", "returned"}
    /\ uploads # <<>>
    /\ uploads' = Tail(uploads)
    /\ LET f  == Head(uploads)
            df == dataframe(f)
            c  == [UploadIdle EXCEPT !.file = f, !.table0 = cot_mappings,
                                     !.logs0 = Len(processing_logs)]
       IN up' =
            IF f.file_name \notin ExcelNames
            THEN [c EXCEPT !.pc = "returned", !.response = 400,
                           !.exc = Exc("not an Excel file")]
            ELSE IF ~f.readable
            THEN [c EXCEPT !.pc = "handler", !.exc = Exc("read_excel failed")]
            ELSE IF missing_columns(df.columns) # {}
            THEN [c EXCEPT !.pc = "handler", !.df = df,
                           !.exc = ValueError(missing_columns(df.columns))]
            ELSE [c EXCEPT !.pc = IF df.rows = <<>> THEN "commit" ELSE "rows",
                           !.df = df,
                           !.new_items = identify_new_items(df, cot_mappings)]
    /\ UNCHANGED <<cot_mappings, processing_logs, email_config, mailbox, wk,
                   is_running, monitor_thread, req>>

\* for _, row in df.iterrows(): one row
UploadRow ==
    /\ up.pc = "rows"
    /\ \E e \in FirstIds(up, cot_mappings) :
          up' = AfterRow(process_excel_data_row(up, cot_mappings, e))
    /\ UNCHANGED <<cot_mappings, processing_logs, email_config, mailbox, uploads, wk,
                   is_running, monitor_thread, req>>

\* db.commit() at the end of process_excel_data, and its return
UploadCommit ==
    /\ up.pc = "commit"
    /\ \E ok \in BOOLEAN :
          LET r == session_commit(up.db, cot_mappings, processing_logs, ok) IN
          /\ cot_mappings' = r.mappings
          /\ up' = IF r.raised
                   THEN [up EXCEPT !.db = r.db, !.pc = "handler",
                                   !.exc = Exc("mapping commit failed")]
                   ELSE [up EXCEPT !.db = r.db, !.pc = "log",
                                   !.result = process_excel_data_result(up)]
    /\ UNCHANGED <<processing_logs, email_config, mailbox, uploads, wk,
                   is_running, monitor_thread, req>>

\* The SUCCESS ProcessingLog, its commit and the response.
UploadLog ==
    /\ up.pc = "log"
    /\ \E ok \in BOOLEAN :
          LET log == SuccessLog(up.file.file_name, "manual_upload", up.result,
                                up.result.records_skipped)
              r   == session_commit(session_add_log(up.db, log), cot_mappings,
                                    processing_logs, ok)
          IN
          /\ processing_logs' = r.logs
          /\ up' = IF r.raised
                   THEN [up EXCEPT !.db = r.db, !.pc = "handler",
                                   !.exc = Exc("log commit failed")]
                   ELSE [up EXCEPT !.db = r.db, !.pc = "returned", !.response = 200]
    /\ UNCHANGED <<cot_mappings, email_config, mailbox, uploads, wk,
                   is_running, monitor_thread, req>>

\* except Exception: the ERROR ProcessingLog, its commit, HTTPException(400).
\* When that commit raises, its exception leaves the handler instead (500).
UploadHandler ==
    /\ up.pc = "handler"
    /\ \E ok \in BOOLEAN :
          LET log == ErrorLog(up.file.file_name, "manual_upload", up.exc)
              r   == session_commit(session_add_log(up.db, log), cot_mappings,
                                    processing_logs, ok)
          IN
          /\ processing_logs' = r.logs
          /\ cot_mappings' = r.mappings
          /\ up' = [up EXCEPT !.db = r.db, !.pc = "returned",
                              !.response = IF r.raised THEN 500 ELSE 400]
    /\ UNCHANGED <<email_config, mailbox, uploads, wk,
                   is_running, monitor_thread, req>>

(***************************************************************************)
(* The polling worker (email_processor.py): monitor_emails, the thread     *)
(* body start_monitoring defines, with check_new_emails and                *)
(* process_excel_attachment.                                               *)
(***************************************************************************)
Workers == {"w1", "w2"}

\* A thread that does not exist.  notice is what became of the notification of the
\* last attachment ("sent", "failed" or "none"), imap whether the iteration reached
\* the mailbox ("ok", "failed" or "none").  config is what the loop's variable refers to:
\* "unbound", "none" (no enabled row), "loaded" or "expired" (a loaded row whose
\* session has committed or rolled back since).
NoThread == NoCall @@ [pc |-> "none", config |-> "unbound", todo |-> <<>>,
                       raised |-> FALSE, notice |-> "none", imap |-> "none",
                       cycle0 |-> <<>>]

\* db.query(EmailConfig).filter(EmailConfig.enabled == True).first()
get_email_config(table) ==
    IF \E i \in DOMAIN table : table[i].enabled THEN "loaded" ELSE "none"

\* filename.lower().endswith(('.xlsx', '.xls'))
ExcelNamesAnyCase == ExcelNames \cup {"COT.XLSX"}

\* The attachments check_new_emails returns for the mails it fetched, flattened
\* in the order the loops of monitor_emails take them.
RECURSIVE AttachmentsOf(_)
AttachmentsOf(mails) ==
    IF mails = <<>> THEN <<>>
    ELSE LET m == Head(mails) IN
         (IF m.seen THEN <<>>
          ELSE SelectSeq(m.attachments, LAMBDA a : a.file_name \in ExcelNamesAnyCase))
         \o AttachmentsOf(Tail(mails))

\* What becomes of an unread message in the loop over the message ids: "no", the
\* fetch did not answer OK or raised; "unparsed", the message was fetched but
\* reading it or its attachments raised; "ok", it was read and marked.
FetchResults == {"ok", "no", "unparsed"}

\* One result for each unread message of the folder.
Fetches(mails) ==
    {o \in [DOMAIN mails -> FetchResults] : \A k \in DOMAIN mails : mails[k].seen => o[k] = "ok"}

\* The message has an attachment with the name of a spreadsheet.
HasExcel(m) == \E k \in DOMAIN m.attachments : m.attachments[k].file_name \in ExcelNamesAnyCase

\* The folder after a loop that reads the messages without marking any.
MarkSeenNever(mails, o) ==
    [k \in DOMAIN mails |->
        IF mails[k].seen THEN mails[k]
        ELSE [mails[k] EXCEPT !.fetch = o[k],
                              !.handed = IF o[k] = "ok" /\ HasExcel(mails[k])
                                         THEN @ + 1 ELSE @]]

\* The folder after the loop.  mail.fetch(msg_id, '(RFC822)') of a folder selected
\* read-write makes the server set \Seen on the message it delivers (RFC 3501,
\* 6.4.5), whatever happens to the message afterwards; mail.store(msg_id,
\* '+FLAGS', '\\Seen') sets it again.  fetch and handed record, for each message,
\* the result of its last fetch and how often it was returned to the caller,
\* later whether an UNSEEN search has passed over it since it was read.
MarkSeen(mails, o) ==
    [k \in DOMAIN mails |->
        IF mails[k].seen THEN [mails[k] EXCEPT !.later = TRUE]
        ELSE [mails[k] EXCEPT !.seen = o[k] # "no",
                              !.fetch = o[k],
                              !.handed = IF o[k] = "ok" /\ HasExcel(mails[k])
                                         THEN @ + 1 ELSE @]]

\* The messages appended to new_emails: the others count as not there.
Parsed(mails, o) ==
    [k \in DOMAIN mails |-> [mails[k] EXCEPT !.seen = @ \/ o[k] # "ok"]]

\* config.last_check = datetime.utcnow() on the enabled row
TouchLastCheck(table) ==
    LET k == CHOOSE i \in DOMAIN table : table[i].enabled
    IN [table EXCEPT ![k].last_check = "set"]

\* The session of the thread after a commit or a rollback: its objects expire.
Expire(c) == [c EXCEPT !.config = IF @ = "loaded" THEN "expired" ELSE @]

\* The end of an iteration: db.close(), then the evaluation of
\* config.check_interval, which raises when the row has expired.
EndIteration(c) ==
    [NoThread EXCEPT !.pc = IF c.config = "expired" THEN "backoff" ELSE "sleep",
                     !.config = c.config, !.imap = c.imap]

\* The loop without its except Exception: an exception ends the thread.
MonitorLoopUncaught(w) ==
    /\ wk[w].pc = "loop"
    /\ \E ok \in BOOLEAN :
          wk' = [wk EXCEPT ![w] =
                  IF ~is_running \/ ~ok THEN [NoThread EXCEPT !.pc = "done"]
                  ELSE IF get_email_config(email_config) = "loaded"
                  THEN [NoThread EXCEPT !.pc = "check", !.config = "loaded"]
                  ELSE [NoThread EXCEPT !.pc = "sleep", !.config = "none"]]
    /\ UNCHANGED <<cot_mappings, processing_logs, email_config, mailbox, uploads, up,
                   is_running, monitor_thread, req>>

\* The loop as while True: the flag is never read.
MonitorLoopForever(w) ==
    /\ wk[w].pc = "loop"
    /\ \E ok \in BOOLEAN :
          wk' = [wk EXCEPT ![w] =
                  IF ~ok
                  THEN [NoThread EXCEPT !.pc = "backoff"]
                  ELSE IF get_email_config(email_config) = "loaded"
                  THEN [NoThread EXCEPT !.pc = "check", !.config = "loaded"]
                  ELSE [NoThread EXCEPT !.pc = "sleep", !.config = "none"]]
    /\ UNCHANGED <<cot_mappings, processing_logs, email_config, mailbox, uploads, up,
                   is_running, monitor_thread, req>>

\* while self.is_running: db = SessionLocal(); config = self.get_email_config(db)
MonitorLoop(w) ==
    /\ wk[w].pc = "loop"
    /\ \E ok \in BOOLEAN :
          wk' = [wk EXCEPT ![w] =
                  IF ~is_running THEN [NoThread EXCEPT !.pc = "done"]
                  ELSE IF ~ok
                  THEN [NoThread EXCEPT !.pc = "backoff"]
                  ELSE IF get_email_config(email_config) = "loaded"
                  THEN [NoThread EXCEPT !.pc = "check", !.config = "loaded"]
                  ELSE [NoThread EXCEPT !.pc = "sleep", !.config = "none"]]
    /\ UNCHANGED <<cot_mappings, processing_logs, email_config, mailbox, uploads, up,
                   is_running, monitor_thread, req>>

\* check_new_emails(db): imap tells whether the mailbox can be reached, o what
\* becomes of each unread message, ok whether the commit of last_check is
\* accepted.  Every exception is caught inside.
CheckNewEmails(w) ==
    /\ wk[w].pc = "check"
    /\ \E imap \in BOOLEAN, ok \in BOOLEAN, o \in Fetches(mailbox) :
          IF get_email_config(email_config) = "none"
          THEN /\ wk' = [wk EXCEPT ![w] = EndIteration(@)]
               /\ UNCHANGED <<mailbox, email_config>>
          ELSE IF ~imap
          THEN /\ wk' = [wk EXCEPT ![w] = EndIteration([@ EXCEPT !.imap = "failed"])]
               /\ UNCHANGED <<mailbox, email_config>>
          ELSE LET r == session_commit(wk[w].db, cot_mappings, processing_logs, ok) IN
               /\ mailbox' = MarkSeen(mailbox, o)
               /\ email_config' = IF r.raised THEN email_config
                                  ELSE TouchLastCheck(email_config)
               /\ wk' = [wk EXCEPT ![w] =
                        LET c == Expire([@ EXCEPT !.pc = "attach", !.db = r.db,
                                                  !.imap = "ok",
                                                  !.cycle0 = cot_mappings,
                                                  !.todo = AttachmentsOf(Parsed(mailbox, o))])
                        IN IF c.todo = <<>> THEN EndIteration(c) ELSE c]
    /\ UNCHANGED <<cot_mappings, processing_logs, uploads, up,
                   is_running, monitor_thread, req>>

\* The records as they were when the cycle fetched its mails.
persisted_at_cycle_start(c, table) == c.cycle0

\* The records the queries of _identify_new_items read: those committed when the
\* attachment is ingested.  cycle0 keeps, for comparison, the table of the moment
\* check_new_emails returned.
persisted(c, table) == table

\* The next attachment: process_excel_attachment up to _identify_new_items; with
\* none left, db.close() and the evaluation of config.check_interval.
ProcessAttachment(w) ==
    /\ wk[w].pc \in {"attach", "attached"}
    /\ wk' = [wk EXCEPT ![w] =
          IF wk[w].todo = <<>>
          THEN EndIteration(@)
          ELSE
            LET f  == Head(wk[w].todo)
                df == dataframe(f)
                c  == [NoThread EXCEPT !.file = f, !.table0 = cot_mappings,
                                       !.logs0 = Len(processing_logs),
                                       !.db = wk[w].db, !.config = wk[w].config,
                                       !.imap = wk[w].imap,
                                       !.cycle0 = wk[w].cycle0,
                                       !.todo = Tail(wk[w].todo)]
            IN IF ~f.readable
               THEN [c EXCEPT !.pc = "handler", !.exc = Exc("read_excel failed")]
               ELSE IF c.db.state = "inactive"
               THEN [c EXCEPT !.pc = "handler", !.df = df,
                              !.exc = Exc("PendingRollbackError")]
               ELSE IF Col("new_channel") \notin df.columns
               THEN [c EXCEPT !.pc = "handler", !.df = df,
                              !.exc = KeyError("new_channel")]
               ELSE IF Col("new_cot") \notin df.columns
               THEN [c EXCEPT !.pc = "handler", !.df = df, !.exc = KeyError("new_cot")]
               ELSE [c EXCEPT !.pc = IF df.rows = <<>> THEN "commit" ELSE "rows",
                              !.df = df,
                              !.new_items =
                                  identify_new_items(df, persisted(c, cot_mappings))]]
    /\ UNCHANGED <<cot_mappings, processing_logs, email_config, mailbox, uploads, up,
                   is_running, monitor_thread, req>>

\* for _, row in df.iterrows(): one row
PollRow(w) ==
    /\ wk[w].pc = "rows"
    /\ \E e \in FirstIds(wk[w], cot_mappings) :
          wk' = [wk EXCEPT ![w] = AfterRow(process_cot_data_row(@, cot_mappings, e))]
    /\ UNCHANGED <<cot_mappings, processing_logs, email_config, mailbox, uploads, up,
                   is_running, monitor_thread, req>>

\* db.commit() at the end of _process_cot_data, and its return
PollCommit(w) ==
    /\ wk[w].pc = "commit"
    /\ \E ok \in BOOLEAN :
          LET r == session_commit(wk[w].db, cot_mappings, processing_logs, ok) IN
          /\ cot_mappings' = r.mappings
          /\ wk' = [wk EXCEPT ![w] = Expire(
                   IF r.raised
                   THEN [@ EXCEPT !.db = r.db, !.pc = "handler",
                                  !.exc = Exc("mapping commit failed")]
                   ELSE [@ EXCEPT !.db = r.db, !.pc = "log",
                                  !.result = process_cot_data_result(wk[w])])]
    /\ UNCHANGED <<processing_logs, email_config, mailbox, uploads, up,
                   is_running, monitor_thread, req>>

\* The SUCCESS ProcessingLog and its commit.
PollLog(w) ==
    /\ wk[w].pc = "log"
    /\ \E ok \in BOOLEAN :
          LET log == SuccessLog(wk[w].file.file_name, wk[w].file.sender,
                                wk[w].result, 0)
              r   == session_commit(session_add_log(wk[w].db, log), cot_mappings,
                                    processing_logs, ok)
          IN
          /\ processing_logs' = r.logs
          /\ wk' = [wk EXCEPT ![w] =
                   IF r.raised
                   THEN [@ EXCEPT !.db = r.db, !.pc = "handler",
                                  !.exc = Exc("log commit failed")]
                   ELSE [@ EXCEPT !.db = r.db, !.pc = "notify"]]
    /\ UNCHANGED <<cot_mappings, email_config, mailbox, uploads, up,
                   is_running, monitor_thread, req>>

\* _send_confirmation_email with the sending outside a try: an SMTP failure
\* reaches the except branch of process_excel_attachment.
SendConfirmationUncaught(w) ==
    /\ wk[w].pc = "notify"
    /\ \E ok \in BOOLEAN, smtp \in BOOLEAN :
          wk' = [wk EXCEPT ![w] =
                   IF ~ok
                   THEN [@ EXCEPT !.pc = "handler",
                                  !.exc = Exc("configuration lookup failed")]
                   ELSE IF get_email_config(email_config) = "none"
                   THEN [@ EXCEPT !.pc = "attached"]
                   ELSE IF smtp
                   THEN [@ EXCEPT !.pc = "attached", !.notice = "sent"]
                   ELSE [@ EXCEPT !.pc = "handler", !.notice = "failed",
                                  !.exc = Exc("SMTP failed")]]
    /\ UNCHANGED <<cot_mappings, processing_logs, email_config, mailbox, uploads, up,
                   is_running, monitor_thread, req>>

\* _send_confirmation_email and return result.  The lookup of the configuration is
\* outside its try (ok: it does not raise); without an enabled row nothing is
\* sent; the sending (smtp: it goes through) is inside the try.
SendConfirmation(w) ==
    /\ wk[w].pc = "notify"
    /\ \E ok \in BOOLEAN, smtp \in BOOLEAN :
          wk' = [wk EXCEPT ![w] =
                   IF ~ok
                   THEN [@ EXCEPT !.pc = "handler",
                                  !.exc = Exc("configuration lookup failed")]
                   ELSE IF get_email_config(email_config) = "none"
                   THEN [@ EXCEPT !.pc = "attached"]
                   ELSE [@ EXCEPT !.pc = "attached",
                                  !.notice = IF smtp THEN "sent" ELSE "failed"]]
    /\ UNCHANGED <<cot_mappings, processing_logs, email_config, mailbox, uploads, up,
                   is_running, monitor_thread, req>>

\* except Exception: the ERROR ProcessingLog and its commit.  When that commit
\* raises, its exception leaves process_excel_attachment at once.
PollHandler(w) ==
    /\ wk[w].pc = "handler"
    /\ \E ok \in BOOLEAN :
          LET log == ErrorLog(wk[w].file.file_name, wk[w].file.sender, wk[w].exc)
              r   == session_commit(session_add_log(wk[w].db, log), cot_mappings,
                                    processing_logs, ok)
          IN
          /\ processing_logs' = r.logs
          /\ cot_mappings' = r.mappings
          /\ wk' = [wk EXCEPT ![w] = Expire(
                   IF r.raised
                   THEN [@ EXCEPT !.db = r.db, !.pc = "attached", !.raised = TRUE]
                   ELSE [@ EXCEPT !.db = r.db, !.pc = "notify_error"])]
    /\ UNCHANGED <<email_config, mailbox, uploads, up,
                   is_running, monitor_thread, req>>

\* _send_error_email and raise; the loop of monitor_emails catches what comes out.
SendError(w) ==
    /\ wk[w].pc = "notify_error"
    /\ \E ok \in BOOLEAN, smtp \in BOOLEAN :
          wk' = [wk EXCEPT ![w] =
                   IF ~ok \/ get_email_config(email_config) = "none"
                   THEN [@ EXCEPT !.pc = "attached", !.raised = TRUE]
                   ELSE [@ EXCEPT !.pc = "attached", !.raised = TRUE,
                                  !.notice = IF smtp THEN "sent" ELSE "failed"]]
    /\ UNCHANGED <<cot_mappings, processing_logs, email_config, mailbox, uploads, up,
                   is_running, monitor_thread, req>>

\* time.sleep(check_interval) or, after an exception, time.sleep(60) is over.
WakeUp(w) ==
    /\ wk[w].pc \in {"sleep", "backoff"}
    /\ wk' = [wk EXCEPT ![w].pc = "loop"]
    /\ UNCHANGED <<cot_mappings, processing_logs, email_config, mailbox, uploads, up,
                   is_running, monitor_thread, req>>

(***************************************************************************)
(* start_monitoring and stop_monitoring, called from the request threads   *)
(* of POST /email-monitoring/start/ and /stop/.  The test of is_running,   *)
(* its assignment and the creation of the thread are separate steps of the *)
(* calling thread.                                                         *)
(***************************************************************************)
Requests == {"r1", "r2"}

Alive(w) == wk[w].pc \notin {"none", "done"}

\* start_monitoring without its test of is_running.
StartMonitoringUntested(r) ==
    /\ req[r] = "idle"
    /\ req' = [req EXCEPT ![r] = "start_set"]
    /\ UNCHANGED <<cot_mappings, processing_logs, email_config, mailbox, uploads, up,
                   wk, is_running, monitor_thread>>

\* start_monitoring: if self.is_running: return
StartMonitoring(r) ==
    /\ req[r] = "idle"
    /\ req' = [req EXCEPT ![r] = IF is_running THEN "idle" ELSE "start_set"]
    /\ UNCHANGED <<cot_mappings, processing_logs, email_config, mailbox, uploads, up,
                   wk, is_running, monitor_thread>>

\* self.is_running = True
StartSet(r) ==
    /\ req[r] = "start_set"
    /\ is_running' = TRUE
    /\ req' = [req EXCEPT ![r] = "start_thread"]
    /\ UNCHANGED <<cot_mappings, processing_logs, email_config, mailbox, uploads, up,
                   wk, monitor_thread>>

\* self.monitor_thread = threading.Thread(target=monitor_emails); start()
StartThread(r) ==
    /\ req[r] = "start_thread"
    /\ \E w \in Workers :
          /\ ~Alive(w)
          /\ wk' = [wk EXCEPT ![w] = [NoThread EXCEPT !.pc = "loop"]]
          /\ monitor_thread' = w
    /\ req' = [req EXCEPT ![r] = "idle"]
    /\ UNCHANGED <<cot_mappings, processing_logs, email_config, mailbox, uploads, up,
                   is_running>>

\* stop_monitoring: if not self.is_running: return
StopMonitoring(r) ==
    /\ req[r] = "idle"
    /\ req' = [req EXCEPT ![r] = IF is_running THEN "stop_set" ELSE "idle"]
    /\ UNCHANGED <<cot_mappings, processing_logs, email_config, mailbox, uploads, up,
                   wk, is_running, monitor_thread>>

\* self.is_running = False
StopSet(r) ==
    /\ req[r] = "stop_set"
    /\ is_running' = FALSE
    /\ req' = [req EXCEPT ![r] = "stop_join"]
    /\ UNCHANGED <<cot_mappings, processing_logs, email_config, mailbox, uploads, up,
                   wk, monitor_thread>>

\* self.monitor_thread.join(timeout=10): over when the thread has ended or the
\* ten seconds have passed, whichever comes first.
StopJoin(r) ==
    /\ req[r] = "stop_join"
    /\ req' = [req EXCEPT ![r] = "idle"]
    /\ UNCHANGED <<cot_mappings, processing_logs, email_config, mailbox, uploads, up,
                   wk, is_running, monitor_thread>>

(***************************************************************************)
(* The inputs: the sheets a client uploads or mails, and the tables the    *)
(* system may hold when they arrive.                                       *)
(***************************************************************************)
Cells(chs, cots, ncs, nts) ==
    [ic_channel : chs, ic_cot : cots, new_channel : ncs, new_cot : nts]

\* Rows with every cell filled.
PlainRows == Cells({"A"}, {"X", "Y"}, {"R", "W"}, {"C"})

\* Rows with one cell empty or unusable.
OddRows ==
    Cells({NaN}, {"X"}, {"R", "W"}, {"C"}) \cup
    Cells({"A"}, {NaN}, {"W"}, {"C"}) \cup
    Cells({BAD}, {"X"}, {"R", "W"}, {"C"}) \cup
    Cells({"A"}, {"X", "Y"}, {NaN}, {"C"}) \cup
    Cells({"A"}, {"X"}, {"R", "W"}, {NaN})

SeqsUpTo(S, n) == UNION {[1..k -> S] : k \in 0..n}

CanonicalHeaders == {Col(c) : c \in required_columns}

\* "IC Channel ", " New COT", ...: the headers of the sheets users send
AliasHeaders == {Raw("ic channel"), Raw("ic cot"), Raw("new channel"), Raw("new cot")}

Sheet(name, headers, rows) ==
    [file_name |-> name, readable |-> TRUE, headers |-> headers, rows |-> rows,
     sender |-> "sender"]

\* Sheets with the four columns under their canonical names.
FullSheets == {Sheet("cot.xlsx", CanonicalHeaders, rows) :
                  rows \in SeqsUpTo(PlainRows \cup OddRows, MaxRows)}

\* Sheets whose headers need cleaning, or lack a column, or have a notes column,
\* or that cannot be read, or whose name is not that of a spreadsheet.
OtherSheets ==
    {Sheet("cot.xlsx", h, <<r>>) :
        h \in {AliasHeaders,
               CanonicalHeaders \ {Col("ic_channel")},
               CanonicalHeaders \ {Col("new_cot")},
               (AliasHeaders \ {Raw("new channel")}) \cup {Raw("channel")}},
        r \in Cells({"A"}, {"X"}, {"R", "W"}, {"C"})}
    \cup {Sheet("cot.xlsx", CanonicalHeaders \cup {Col("notes")},
                <<r @@ [notes |-> "memo"]>>) :
             r \in Cells({"A"}, {"X"}, {"R", "W"}, {"C"})}
    \cup {[Sheet("cot.xlsx", CanonicalHeaders, <<>>) EXCEPT !.readable = FALSE],
          Sheet("notes.txt", CanonicalHeaders, <<>>),
          Sheet("COT.XLSX", CanonicalHeaders, <<>>)}

Sheets == FullSheets \cup OtherSheets

\* cot_mappings as earlier ingests of sheets of PlainRows leave it.
PriorRecords ==
    {[ic_channel |-> r.ic_channel, ic_cot |-> r.ic_cot, new_channel |-> r.new_channel,
      new_cot |-> r.new_cot, is_new_channel |-> TRUE, is_new_cot |-> TRUE,
      notes |-> "old memo", processed_date |-> "earlier",
      source_file |-> "old.xls"] : r \in PlainRows}

\* No record or one record.
SingleTables == SeqsUpTo(PriorRecords, 1)

\* No record, one record, two records of one batch (of one key or of two).
PriorTables ==
    SingleTables \cup
    {<<r, q>> : r \in {p \in PriorRecords : p.ic_cot = "X"}, q \in PriorRecords}

\* EmailConfig(...) with the column defaults of models.py and no credentials.
ConfigRow(enabled) ==
    [imap_server |-> "imap.gmail.com", imap_port |-> 993,
     email_username |-> NULL, email_password |-> NULL,
     smtp_server |-> "smtp.gmail.com", smtp_port |-> 587,
     enabled |-> enabled, last_check |-> "unset"]

Mail(attachments) ==
    [seen |-> FALSE, attachments |-> attachments, fetch |-> "none", handed |-> 0,
     later |-> FALSE]

(***************************************************************************)
(* Upload: a client posts a sheet to /upload-excel/, twice, to a system    *)
(* holding some table; monitoring has not been started.                    *)
(***************************************************************************)
Init ==
    /\ cot_mappings \in PriorTables
    /\ processing_logs = <<>>
    /\ up = UploadIdle
    /\ req = [r \in Requests |-> "idle"]
    /\ \E f \in Sheets : uploads = <<f, f>>
    /\ mailbox = <<>>
    /\ email_config = <<ConfigRow(FALSE)>>
    /\ is_running = FALSE
    /\ monitor_thread = "none"
    /\ wk = [w \in Workers |-> NoThread]

Next ==
    \/ upload_excel
    \/ UploadRow
    \/ UploadCommit
    \/ UploadLog
    \/ UploadHandler

Spec == Init /\ [][Next]_vars

(***************************************************************************)
(* Polling: a client mails a sheet, twice in one message, to a system      *)
(* holding some table, whose configuration is enabled and whose monitoring *)
(* has been started.                                                       *)
(***************************************************************************)
InitPoll ==
    /\ cot_mappings \in SingleTables
    /\ processing_logs = <<>>
    /\ up = UploadIdle
    /\ req = [r \in Requests |-> "idle"]
    /\ uploads = <<>>
    /\ \E f \in Sheets : mailbox = <<Mail(<<f, f>>)>>
    /\ email_config = <<ConfigRow(TRUE)>>
    /\ is_running = TRUE
    /\ monitor_thread = "w1"
    /\ wk = [w \in Workers |->
               IF w = "w1" THEN [NoThread EXCEPT !.pc = "loop"] ELSE NoThread]

Worker(w) ==
    \/ MonitorLoop(w)
    \/ CheckNewEmails(w)
    \/ ProcessAttachment(w)
    \/ PollRow(w)
    \/ PollCommit(w)
    \/ PollLog(w)
    \/ SendConfirmation(w)
    \/ PollHandler(w)
    \/ SendError(w)
    \/ WakeUp(w)

NextPoll == \E w \in Workers : Worker(w)

SpecPoll == InitPoll /\ [][NextPoll]_vars

(***************************************************************************)
(* Monitoring: two request threads call start_monitoring and               *)
(* stop_monitoring in any order and at any moment, on a system with an     *)
(* empty table and one unread mail.                                        *)
(***************************************************************************)
MonitorSheets ==
    {Sheet("cot.xlsx", CanonicalHeaders, <<r>>) :
        r \in Cells({"A", BAD}, {"X"}, {"R"}, {"C"})}
    \cup {Sheet("cot.xlsx", CanonicalHeaders \ {Col("new_cot")}, <<>>)}

InitMonitor ==
    /\ cot_mappings = <<>>
    /\ processing_logs = <<>>
    /\ up = UploadIdle
    /\ req = [r \in Requests |-> "idle"]
    /\ uploads = <<>>
    /\ \E f \in MonitorSheets : mailbox = <<Mail(<<f>>)>>
    /\ \E enabled \in BOOLEAN : email_config = <<ConfigRow(enabled)>>
    /\ is_running = FALSE
    /\ monitor_thread = "none"
    /\ wk = [w \in Workers |-> NoThread]

Request(r) ==
    \/ StartMonitoring(r)
    \/ StartSet(r)
    \/ StartThread(r)
    \/ StopMonitoring(r)
    \/ StopSet(r)
    \/ StopJoin(r)

NextMonitor ==
    \/ \E r \in Requests : Request(r)
    \/ \E w \in Workers : Worker(w)

SpecMonitor == InitMonitor /\ [][NextMonitor]_vars

\* A call of start_monitoring or stop_monitoring that has passed its test.
InCall(r) ==
    \/ StartSet(r)
    \/ StartThread(r)
    \/ StopSet(r)
    \/ StopJoin(r)

\* Monitoring where every step of a thread ends: an iteration, a sleep, and a
\* call once it has begun.  Requests themselves need not arrive.
InitMonitorFair ==
    /\ InitMonitor
    /\ email_config = <<ConfigRow(TRUE)>>
    /\ \A k \in DOMAIN mailbox[1].attachments :
          /\ mailbox[1].attachments[k].rows # <<>>
          /\ mailbox[1].attachments[k].rows[1].ic_channel = "A"

SpecMonitorFair ==
    /\ InitMonitorFair
    /\ [][NextMonitor]_vars
    /\ \A w \in Workers : WF_vars(Worker(w))
    /\ \A r \in Requests : WF_vars(InCall(r))

(***************************************************************************)
(* An upload and a polling iteration at the same time, each in its own     *)
(* session, every interleaving of their steps: one client uploads a sheet  *)
(* of one row while the worker finds a mail with a sheet of one row.       *)
(***************************************************************************)
RaceSheets ==
    {g \in Sheets : /\ g.file_name = "cot.xlsx" /\ g.readable /\ Len(g.rows) = 1
                    /\ g.headers \subseteq CanonicalHeaders
                    /\ g.rows[1].ic_cot = "X"
                    /\ g.rows[1].new_channel # NaN /\ g.rows[1].new_cot # NaN}

RaceTables ==
    {t \in SingleTables : \A k \in DOMAIN t : t[k].ic_cot = "X"}
    \cup {<<r, q>> : r \in {p \in PriorRecords : p.ic_cot = "X" /\ p.new_channel = "R"},
                     q \in {p \in PriorRecords : p.ic_cot = "Y" /\ p.new_channel = "W"}}

InitRace ==
    /\ cot_mappings \in RaceTables
    /\ processing_logs = <<>>
    /\ up = UploadIdle
    /\ req = [r \in Requests |-> "idle"]
    /\ \E f \in RaceSheets, g \in RaceSheets :
          /\ uploads = <<f>>
          /\ mailbox = <<Mail(<<g>>)>>
    /\ email_config = <<ConfigRow(TRUE)>>
    /\ is_running = TRUE
    /\ monitor_thread = "w1"
    /\ wk = [w \in Workers |->
               IF w = "w1" THEN [NoThread EXCEPT !.pc = "loop"] ELSE NoThread]

NextRace == Next \/ NextPoll

SpecRace == InitRace /\ [][NextRace]_vars

(***************************************************************************)
(* GET and PUT /email-config/ (main.py).  Each call is one transaction;    *)
(* req holds the last response each client received.                       *)
(***************************************************************************)
Passwords == {NULL, "pw1", "pw2"}

NoResponse == [status |-> 0, body |-> [detail |-> "none"]]

\* The response with the stored password in it.
EmailConfigResponseEchoing(config) ==
    [imap_server |-> config.imap_server, imap_port |-> config.imap_port,
     email_username |-> config.email_username,
     email_password |-> config.email_password,
     smtp_server |-> config.smtp_server, smtp_port |-> config.smtp_port,
     enabled |-> config.enabled]

\* EmailConfigResponse(imap_server=config.imap_server, ...)
EmailConfigResponse(config) ==
    [imap_server |-> config.imap_server, imap_port |-> config.imap_port,
     email_username |-> config.email_username,
     smtp_server |-> config.smtp_server, smtp_port |-> config.smtp_port,
     enabled |-> config.enabled]

\* GET /email-config/ without its test: a default row is created at every read.
get_email_config_endpoint_creating(table, ok) ==
    IF ok
    THEN [table |-> Append(table, ConfigRow(FALSE)),
          response |-> [status |-> 200, body |-> EmailConfigResponse(ConfigRow(FALSE))]]
    ELSE [table |-> table, response |-> [status |-> 500, body |-> [detail |-> "Internal Server Error"]]]

\* GET /email-config/: the first row, created with the defaults when there is
\* none; ok tells whether the commit of the created row is accepted.
get_email_config_endpoint(table, ok) ==
    IF table # <<>>
    THEN [table |-> table,
          response |-> [status |-> 200, body |-> EmailConfigResponse(table[1])]]
    ELSE IF ok
    THEN [table |-> <<ConfigRow(FALSE)>>,
          response |-> [status |-> 200, body |-> EmailConfigResponse(ConfigRow(FALSE))]]
    ELSE [table |-> table, response |-> [status |-> 500, body |-> [detail |-> "Internal Server Error"]]]

\* The query parameters of PUT /email-config/ (the ports are left at their values).
UpdateArgs ==
    [imap_server : {"imap.gmail.com", "imap.corp"}, email_username : {"user"},
     email_password : Passwords \ {NULL}]

\* PUT /email-config/: the first row (created when there is none) takes the
\* parameters and enabled = True; ok tells whether the commit is accepted.
update_email_config(table, args, ok) ==
    LET config == IF table = <<>> THEN ConfigRow(FALSE) ELSE table[1]
        new    == [config EXCEPT !.imap_server = args.imap_server,
                                 !.email_username = args.email_username,
                                 !.email_password = args.email_password,
                                 !.enabled = TRUE]
    IN IF ok
       THEN [table |-> IF table = <<>> THEN <<new>> ELSE [table EXCEPT ![1] = new],
             response |-> [status |-> 200,
                           body |-> [message |-> "Email configuration updated successfully"]]]
       ELSE [table |-> table, response |-> [status |-> 500, body |-> [detail |-> "Internal Server Error"]]]

GetEmailConfig(r) ==
    /\ \E ok \in BOOLEAN :
          LET out == get_email_config_endpoint(email_config, ok) IN
          /\ email_config' = out.table
          /\ req' = [req EXCEPT ![r] = out.response]
    /\ UNCHANGED <<cot_mappings, processing_logs, mailbox, uploads, up, wk,
                   is_running, monitor_thread>>

UpdateEmailConfig(r) ==
    /\ \E args \in UpdateArgs, ok \in BOOLEAN :
          LET out == update_email_config(email_config, args, ok) IN
          /\ email_config' = out.table
          /\ req' = [req EXCEPT ![r] = out.response]
    /\ UNCHANGED <<cot_mappings, processing_logs, mailbox, uploads, up, wk,
                   is_running, monitor_thread>>

\* The email_config tables the endpoints may find: none, or one row.
StoredConfigs ==
    {<<>>} \cup
    {<<[ConfigRow(e) EXCEPT !.email_username = u, !.email_password = pw]>> :
        e \in BOOLEAN, u \in {NULL, "user"}, pw \in Passwords}

InitConfig ==
    /\ cot_mappings = <<>>
    /\ processing_logs = <<>>
    /\ email_config \in StoredConfigs
    /\ mailbox = <<>>
    /\ uploads = <<>>
    /\ up = UploadIdle
    /\ wk = [w \in Workers |-> NoThread]
    /\ is_running = FALSE
    /\ monitor_thread = "none"
    /\ req = [r \in Requests |-> NoResponse]

NextConfig == \E r \in Requests : GetEmailConfig(r) \/ UpdateEmailConfig(r)

SpecConfig == InitConfig /\ [][NextConfig]_vars

(***************************************************************************)
(* The system at work: init_db has created the email_config row, the       *)
(* worker polls a mailbox with one mail while a client uploads a sheet and *)
(* two clients read and update the configuration.                          *)
(***************************************************************************)
SystemSheets ==
    {Sheet("cot.xlsx", CanonicalHeaders, <<r>>) :
        r \in Cells({"A"}, {"X"}, {"R"}, {"C"})}

InitSystem ==
    /\ cot_mappings = <<>>
    /\ processing_logs = <<>>
    /\ up = UploadIdle
    /\ req = [r \in Requests |-> NoResponse]
    /\ \E f \in SystemSheets, g \in SystemSheets :
          /\ uploads = <<f>>
          /\ mailbox = <<Mail(<<g>>)>>
    /\ \E e \in BOOLEAN : email_config = <<ConfigRow(e)>>
    /\ is_running = TRUE
    /\ monitor_thread = "w1"
    /\ wk = [w \in Workers |->
               IF w = "w1" THEN [NoThread EXCEPT !.pc = "loop"] ELSE NoThread]

NextSystem ==
    \/ Next
    \/ NextPoll
    \/ GetEmailConfig("r1")
    \/ UpdateEmailConfig("r1")

SpecSystem == InitSystem /\ [][NextSystem]_vars

(***************************************************************************)
(* Retention: POST /system/cleanup-logs/ (main.py, cleanup_logs) and       *)
(* cleanup_old_logs (database.py), called while the worker polls and a     *)
(* client uploads, on a processing_logs table with entries of several ages.*)
(***************************************************************************)
\* A sweep that also takes the entries written exactly at the cutoff.
RetainedYounger(logs, days) ==
    SelectSeq(logs, LAMBDA l : l.processed_at < days)

\* The entries with processed_at >= cutoff_date, cutoff_date being days before now.
Retained(logs, days) ==
    SelectSeq(logs, LAMBDA l : l.processed_at <= days)

\* cleanup_old_logs(days): the table afterwards and deleted_count; ok tells
\* whether the delete and its commit are accepted.
cleanup_old_logs(logs, days, ok) ==
    IF ok
    THEN [logs |-> Retained(logs, days), raised |-> FALSE,
          deleted_count |-> Len(logs) - Len(Retained(logs, days))]
    ELSE [logs |-> logs, raised |-> TRUE, deleted_count |-> 0]

\* The values of the query parameter days (default 30).
CleanupDays == {-1, 1, 30}

\* POST /system/cleanup-logs/?days=...
cleanup_logs(r) ==
    /\ \E days \in CleanupDays, ok \in BOOLEAN :
          LET out == cleanup_old_logs(processing_logs, days, ok) IN
          /\ processing_logs' = out.logs
          /\ req' = [req EXCEPT ![r] =
                       IF out.raised
                       THEN [status |-> 500, body |-> [detail |-> "Error cleaning up logs"],
                             days |-> days]
                       ELSE [status |-> 200, body |-> [deleted |-> out.deleted_count],
                             days |-> days]]
    /\ UNCHANGED <<cot_mappings, email_config, mailbox, uploads, up, wk,
                   is_running, monitor_thread>>

\* How old, in days, the entries of earlier ingests are.
LogAges == {1, 31}

PriorLogs ==
    {[ErrorLog("old.xls", "manual_upload", Exc("read_excel failed"))
         EXCEPT !.processed_at = a] : a \in LogAges}

InitCleanup ==
    /\ cot_mappings = <<>>
    /\ processing_logs \in SeqsUpTo(PriorLogs, 2)
    /\ up = UploadIdle
    /\ req = [r \in Requests |-> NoResponse @@ [days |-> 0]]
    /\ \E f \in SystemSheets, g \in SystemSheets :
          /\ uploads = <<f>>
          /\ mailbox = <<Mail(<<g>>)>>
    /\ email_config = <<ConfigRow(TRUE)>>
    /\ is_running = TRUE
    /\ monitor_thread = "w1"
    /\ wk = [w \in Workers |->
               IF w = "w1" THEN [NoThread EXCEPT !.pc = "loop"] ELSE NoThread]

NextCleanup == Next \/ NextPoll \/ cleanup_logs("r1")

SpecCleanup == InitCleanup /\ [][NextCleanup]_vars

(***************************************************************************)
(* Upload on an empty table: the runs of Spec that start with no record.   *)
(***************************************************************************)
InitEmpty == Init /\ cot_mappings = <<>>

SpecEmpty == InitEmpty /\ [][Next]_vars

(***************************************************************************)
(* Properties.                                                             *)
(***************************************************************************)
SameIdentity(a, b) == a.ic_channel = b.ic_channel /\ a.ic_cot = b.ic_cot

\* C1: starting from an empty table, after any ingests cot_mappings holds at most
\* one record per (ic_channel, ic_cot) pair, also when one batch has the same
\* identity key in two rows.
C1_IdentityUnique ==
    \A i, j \in DOMAIN cot_mappings :
        SameIdentity(cot_mappings[i], cot_mappings[j]) => i = j

\* process_excel_data has returned its result (the SUCCESS log is not yet written).
UploadIngested == up.pc = "log"

\* C2: the result of process_excel_data satisfies
\* records_inserted + records_updated + records_skipped = total_records.
C2_CountsAddUp ==
    UploadIngested =>
        up.result.records_inserted + up.result.records_updated
            + up.result.records_skipped = up.result.total_records

\* A batch mixing an update, and a row skipped for an error or a missing identity.
C2_Witness ==
    /\ UploadIngested
    /\ up.result.total_records = MaxRows
    /\ up.result.records_skipped >= 1
    /\ up.result.records_updated >= 1

\* The second of two uploads of one file has ingested, and the first one ended
\* with its SUCCESS log.
SecondRunIngested ==
    /\ UploadIngested
    /\ uploads = <<>>
    /\ Len(processing_logs) = 1
    /\ processing_logs[1].processing_status = "SUCCESS"

\* Row i is not skipped by process_excel_data.
Ingested(df, i) == ~MissingIdentity(df, i) /\ ~LookupRaises(df, i)

\* Row i is ingested and no later ingested row of the batch has its identity key.
Kept(df, i) ==
    /\ Ingested(df, i)
    /\ \A j \in DOMAIN df.rows :
           (j > i /\ Ingested(df, j))
               => ~(/\ RowGet(df, j, "ic_channel") = RowGet(df, i, "ic_channel")
                    /\ RowGet(df, j, "ic_cot") = RowGet(df, i, "ic_cot"))

\* Every non-null value of the column is carried by a kept row.
AllValuesKept(df, col) ==
    \A v \in file_values(df, col) :
        \E i \in DOMAIN df.rows : RowGet(df, i, col) = v /\ Kept(df, i)

CarryingRows(df, col, v) ==
    {i \in DOMAIN df.rows : Ingested(df, i) /\ RowGet(df, i, col) = v}

\* Every record holding v in column col has the flag set.
AllFlagged(table, col, flag, v) ==
    \A k \in DOMAIN table : table[k][col] = v => table[k][flag]

\* C4: a value absent from every record before the batch and carried by two or
\* more non-skipped rows has its novelty flag true in every record written from
\* those rows.
C4_FlagsWholeBatch ==
    UploadIngested =>
        /\ \A v \in file_values(up.df, "new_channel") \ existing_values(up.table0, "new_channel") :
               Cardinality(CarryingRows(up.df, "new_channel", v)) >= 2
                   => AllFlagged(cot_mappings, "new_channel", "is_new_channel", v)
        /\ \A v \in file_values(up.df, "new_cot") \ existing_values(up.table0, "new_cot") :
               Cardinality(CarryingRows(up.df, "new_cot", v)) >= 2
                   => AllFlagged(cot_mappings, "new_cot", "is_new_cot", v)

\* Two records written by one batch hold the same new channel, both flagged.
C4_Witness ==
    /\ UploadIngested
    /\ \E v \in file_values(up.df, "new_channel") \ existing_values(up.table0, "new_channel") :
           /\ Cardinality(CarryingRows(up.df, "new_channel", v)) >= 2
           /\ Cardinality({k \in DOMAIN cot_mappings :
                               /\ cot_mappings[k].new_channel = v
                               /\ cot_mappings[k].is_new_channel}) >= 2

\* The ProcessingLog entries persisted since the attempt of the call c began.
LogsSince(c) ==
    {processing_logs[k] : k \in (c.logs0 + 1)..Len(processing_logs)}

\* C5: when the commit of the mapping writes fails during an ingest, a
\* ProcessingLog with processing_status = 'ERROR' and the exception text is
\* persisted, and cot_mappings is what it was before the attempt.
C5_CommitFailureLogged ==
    (up.pc = "returned" /\ up.exc = Exc("mapping commit failed")) =>
        /\ cot_mappings = up.table0
        /\ \E log \in LogsSince(up) :
               log.processing_status = "ERROR" /\ log.error_details = up.exc

\* C6: every attachment handed to process_excel_attachment produces exactly one
\* ProcessingLog entry, whatever step fails; never zero and never two.
C6_OneLogPerAttempt ==
    \A w \in Workers :
        wk[w].pc = "attached" => Len(processing_logs) - wk[w].logs0 = 1

\* C7: a batch that lacks one of the four required columns after normalization is
\* rejected on the polling path as on the upload path, with an error naming the
\* missing columns, and no cot_mappings record is created or changed.
C7_MissingColumnsRejected ==
    \A w \in Workers :
        (wk[w].file.readable /\ missing_columns(wk[w].df.columns) # {}) =>
            /\ wk[w].pc \notin {"rows", "commit", "log", "notify"}
            /\ wk[w].pc = "attached" =>
                   /\ wk[w].raised
                   /\ wk[w].exc.missing = missing_columns(wk[w].df.columns)
                   /\ cot_mappings = wk[w].table0

\* The rows of the batch with ic_channel or ic_cot absent.
AbsentIdentityRows(df) ==
    {i \in DOMAIN df.rows :
        RowGet(df, i, "ic_channel") \in {NaN, None} \/ RowGet(df, i, "ic_cot") \in {NaN, None}}

\* Record k of the table was created or changed by the running upload.
Written(k) == k > Len(up.table0) \/ cot_mappings[k] # up.table0[k]

\* C8: every row whose ic_channel or ic_cot is absent is skipped by
\* process_excel_data: it is counted in records_skipped and it creates and updates
\* no record (a batch of n rows with one such row has records_skipped >= 1 and
\* records_inserted <= n - 1).
C8_AbsentIdentitySkipped ==
    UploadIngested =>
        LET absent == Cardinality(AbsentIdentityRows(up.df)) IN
        /\ up.result.records_skipped >= absent
        /\ up.result.records_inserted + up.result.records_updated
               <= up.result.total_records - absent
        /\ \A k \in DOMAIN cot_mappings :
               Written(k) =>
                   /\ cot_mappings[k].ic_channel # NULL
                   /\ cot_mappings[k].ic_cot # NULL
                   /\ \E i \in DOMAIN up.df.rows :
                          /\ i \notin AbsentIdentityRows(up.df)
                          /\ cot_mappings[k].ic_channel = RowGet(up.df, i, "ic_channel")
                          /\ cot_mappings[k].ic_cot = RowGet(up.df, i, "ic_cot")

\* A batch of MaxRows rows, one without ic_channel, the others inserted.
C8_Witness ==
    /\ UploadIngested
    /\ up.result.total_records = MaxRows
    /\ \E i \in DOMAIN up.df.rows : isna(RowGet(up.df, i, "ic_channel"))
    /\ up.result.records_skipped = 1
    /\ up.result.records_inserted = MaxRows - 1

\* C9: while is_running stays true the polling worker never terminates: an
\* exception raised inside an iteration is caught and the worker goes on; it
\* leaves the loop only at the test of is_running, once that is false.
C9_WorkerNeverExits ==
    [][\A w \in Workers :
          (Alive(w) /\ ~Alive(w)') => (wk[w].pc = "loop" /\ ~is_running)]_vars

\* A worker waits out the backoff after an exception of its iteration, an ingest
\* having raised in it, and monitoring is still on.
C9_Witness ==
    \E w \in Workers :
        wk[w].pc = "backoff" /\ is_running /\ processing_logs # <<>>

\* C10: under every interleaving of start_monitoring and stop_monitoring calls,
\* at most one monitor thread is executing the polling loop.
C10_SingleWorker ==
    Cardinality({w \in Workers : Alive(w)}) <= 1

\* C11: start_monitoring called while the monitor is running is a no-op: the call
\* returns at once, is_running and monitor_thread are unchanged and no thread is
\* created.
C11_StartWhileRunningNoOp ==
    [][\A r \in Requests :
          (StartMonitoring(r) /\ is_running) =>
              /\ req'[r] = "idle"
              /\ UNCHANGED <<is_running, monitor_thread, wk>>]_vars

\* The monitor runs, its thread is alive, and a request thread is free to call
\* start_monitoring.
C11_Witness ==
    /\ is_running
    /\ monitor_thread \in Workers
    /\ Alive(monitor_thread)
    /\ \E r \in Requests : req[r] = "idle"

\* C12: on the upload path every exception raised while an accepted file is read,
\* parsed or ingested gives both an ERROR ProcessingLog and a failure response
\* carrying the exception message (the HTTPException 400), never a success.
C12_UploadFailureReported ==
    (up.pc = "returned" /\ up.file.file_name \in ExcelNames /\ up.exc # NoExc) =>
        /\ up.response = 400
        /\ \E log \in LogsSince(up) :
               log.processing_status = "ERROR" /\ log.error_details = up.exc

\* C13: on the polling path a notification that cannot be delivered (the SMTP
\* connection, login or sending raises) changes neither cot_mappings nor the
\* ProcessingLog recorded for the batch, and after a successful ingest
\* process_excel_attachment still returns the ingest result.
C13_NotificationFailureHarmless ==
    [][\A w \in Workers :
          ((SendConfirmation(w) \/ SendError(w)) /\ wk'[w].notice = "failed") =>
              /\ UNCHANGED <<cot_mappings, processing_logs>>
              /\ SendConfirmation(w) =>
                     /\ wk'[w].pc = "attached"
                     /\ ~wk'[w].raised
                     /\ wk[w].result.returned
                     /\ wk'[w].result = wk[w].result]_vars

\* An attachment was ingested and logged, its confirmation could not be sent, and
\* process_excel_attachment has returned the result.
C13_Witness ==
    \E w \in Workers :
        /\ wk[w].pc = "attached"
        /\ wk[w].notice = "failed"
        /\ ~wk[w].raised
        /\ wk[w].result.returned
        /\ wk[w].result.records_inserted >= 1

\* The table with p as the stored password of every row.
WithPassword(table, p) ==
    [k \in DOMAIN table |-> [table[k] EXCEPT !.email_password = p]]

\* C14: the responses of GET /email-config/ and PUT /email-config/ do not depend
\* on the stored email_password: on two tables that differ only in the password
\* each endpoint gives the same response.
C14_PasswordNotInResponses ==
    \A p \in Passwords, ok \in BOOLEAN :
        /\ get_email_config_endpoint(WithPassword(email_config, p), ok).response
               = get_email_config_endpoint(email_config, ok).response
        /\ \A args \in UpdateArgs :
               update_email_config(WithPassword(email_config, p), args, ok).response
                   = update_email_config(email_config, args, ok).response

\* A password is stored and a client has received the configuration.
C14_Witness ==
    /\ email_config # <<>>
    /\ email_config[1].email_password = "pw1"
    /\ \E r \in Requests :
           /\ req[r].status = 200
           /\ req[r].body = EmailConfigResponse(email_config[1])

\* The row loop of the call c is over, or the call was refused for its columns.
IngestDone(c) == c.pc = "commit"
IngestRefused(c) == c.pc = "handler" /\ c.exc.missing # {}

\* The upload and the worker have taken the same sheet through their ingestion
\* procedures on the same table, and neither has committed yet.
SameBatchBothPaths ==
    /\ up.file = wk["w1"].file
    /\ up.table0 = wk["w1"].table0
    /\ cot_mappings = up.table0
    /\ IngestDone(up) \/ IngestRefused(up)
    /\ IngestDone(wk["w1"]) \/ IngestRefused(wk["w1"])

\* C15: process_excel_data and _process_cot_data are the same procedure: on the
\* same table and batch they leave cot_mappings in the same state and report the
\* same total, inserted and updated counts and the same novelty lists, also for
\* batches with rows lacking an identity key or lacking a required column.
C15_PathsAgree ==
    SameBatchBothPaths =>
        \/ IngestRefused(up) /\ IngestRefused(wk["w1"])
        \/ /\ IngestDone(up) /\ IngestDone(wk["w1"])
           /\ Flushed(cot_mappings, up.db) = Flushed(cot_mappings, wk["w1"].db)
           /\ up.records_inserted = wk["w1"].records_inserted
           /\ up.records_updated = wk["w1"].records_updated
           /\ up.new_items = wk["w1"].new_items

\* The two batches have one ingestible row each, with the same identity key.
Competing ==
    /\ missing_columns(up.df.columns) = {} /\ Len(up.df.rows) = 1
    /\ missing_columns(wk["w1"].df.columns) = {} /\ Len(wk["w1"].df.rows) = 1
    /\ Ingested(up.df, 1) /\ Ingested(wk["w1"].df, 1)
    /\ RowGet(up.df, 1, "ic_channel") = RowGet(wk["w1"].df, 1, "ic_channel")
    /\ RowGet(up.df, 1, "ic_cot") = RowGet(wk["w1"].df, 1, "ic_cot")

\* The table holds one record for the key of the row of df, with its payload.
LastWriterWins(table, df) ==
    LET ids == {k \in DOMAIN table :
                   /\ table[k].ic_channel = RowGet(df, 1, "ic_channel")
                   /\ table[k].ic_cot = RowGet(df, 1, "ic_cot")}
    IN /\ Cardinality(ids) = 1
       /\ \A k \in ids : /\ table[k].new_channel = ToDb(RowGet(df, 1, "new_channel"))
                          /\ table[k].new_cot = ToDb(RowGet(df, 1, "new_cot"))

\* C16: when an upload ingest and a polling ingest of batches with the same
\* identity key run concurrently, each in its own session, the store ends with a
\* single record for the key carrying the payload of the ingest that committed last.
C16_LastWriterWins ==
    [][/\ (/\ UploadCommit /\ up'.result.returned
            /\ wk["w1"].result.returned /\ Competing)
           => LastWriterWins(cot_mappings', up.df)
       /\ (/\ PollCommit("w1") /\ wk'["w1"].result.returned
            /\ up.result.returned /\ Competing)
           => LastWriterWins(cot_mappings', wk["w1"].df)]_vars

\* C17: an iteration in which the mailbox could not be reached (the IMAP connect,
\* login or select raised inside check_new_emails) is followed by the fixed
\* back-off of 60 seconds, never by the wait of check_interval.
C17_UnreachableBacksOff ==
    \A w \in Workers : wk[w].imap = "failed" => wk[w].pc # "sleep"

\* C18: once is_running is False and stays so, a worker that evaluates the loop
\* condition begins no new iteration but ends, every worker eventually ends, and
\* the join of stop_monitoring returns whether or not the worker has ended.
C18_StopEndsWorker ==
    /\ [][\A w \in Workers :
            (wk[w].pc = "loop" /\ ~is_running /\ wk'[w] # wk[w])
                => wk'[w].pc = "done"]_vars
    /\ \A w \in Workers : <>[](~is_running) => <>[](~Alive(w))
    /\ \A r \in Requests : (req[r] = "stop_join") ~> (req[r] = "idle")

C18_Witness ==
    /\ ~is_running
    /\ monitor_thread \in Workers
    /\ wk[monitor_thread].pc = "done"
    /\ \A r \in Requests : req[r] = "idle"

\* The records of the table that carry the identity key of row i.
Matched(table, df, i) ==
    MatchingIds(table, RowGet(df, i, "ic_channel"), RowGet(df, i, "ic_cot"))

\* The record k was overwritten by row i of the upload: payload, notes, source
\* and date are those of the batch, the flags tell whether the value is in the
\* batch and in no record held when the batch began, the key is as it was.
Overwritten(k, i) ==
    /\ cot_mappings[k].ic_channel = up.table0[k].ic_channel
    /\ cot_mappings[k].ic_cot = up.table0[k].ic_cot
    /\ cot_mappings[k].new_channel = ToDb(RowGet(up.df, i, "new_channel"))
    /\ cot_mappings[k].new_cot = ToDb(RowGet(up.df, i, "new_cot"))
    /\ cot_mappings[k].notes = ToDb(RowGet(up.df, i, "notes"))
    /\ cot_mappings[k].source_file = up.file.file_name
    /\ cot_mappings[k].processed_date = "now"
    /\ cot_mappings[k].is_new_channel
           = (/\ \E j \in DOMAIN up.df.rows :
                    /\ ~isna(RowGet(up.df, j, "new_channel"))
                    /\ RowGet(up.df, j, "new_channel") = RowGet(up.df, i, "new_channel")
              /\ \A n \in DOMAIN up.table0 :
                    up.table0[n].new_channel # RowGet(up.df, i, "new_channel"))
    /\ cot_mappings[k].is_new_cot
           = (/\ \E j \in DOMAIN up.df.rows :
                    /\ ~isna(RowGet(up.df, j, "new_cot"))
                    /\ RowGet(up.df, j, "new_cot") = RowGet(up.df, i, "new_cot")
              /\ \A n \in DOMAIN up.table0 :
                    up.table0[n].new_cot # RowGet(up.df, i, "new_cot"))

\* C19: when the key of a row matches an existing record, the ingest overwrites
\* new_channel, new_cot, notes, source_file, processed_date, is_new_channel and
\* is_new_cot of the record with the values computed for this batch; the flags
\* come from this batch's novelty only, so a record flagged novel that is
\* ingested again with the same value is no longer flagged.
C19_UpdateOverwrites ==
    UploadIngested =>
        \A i \in DOMAIN up.df.rows :
            (Kept(up.df, i) /\ Matched(up.table0, up.df, i) # {}) =>
                \E k \in Matched(up.table0, up.df, i) :
                    /\ Overwritten(k, i)
                    /\ up.table0[k].new_channel = RowGet(up.df, i, "new_channel")
                           => ~cot_mappings[k].is_new_channel
                    /\ up.table0[k].new_cot = RowGet(up.df, i, "new_cot")
                           => ~cot_mappings[k].is_new_cot

\* A record flagged novel for its channel and its COT was ingested again with the
\* same values from another file and with a note: it is no longer flagged.
C19_Witness ==
    /\ UploadIngested
    /\ \E i \in DOMAIN up.df.rows :
          /\ Kept(up.df, i)
          /\ \E k \in Matched(up.table0, up.df, i) :
                /\ up.table0[k].is_new_channel /\ up.table0[k].is_new_cot
                /\ up.table0[k].new_channel = RowGet(up.df, i, "new_channel")
                /\ up.table0[k].new_cot = RowGet(up.df, i, "new_cot")
                /\ up.table0[k].source_file # up.file.file_name
                /\ up.table0[k].notes # ToDb(RowGet(up.df, i, "notes"))
                /\ Overwritten(k, i)
                /\ ~cot_mappings[k].is_new_channel /\ ~cot_mappings[k].is_new_cot

\* The values of the column in the rows of the batch, the empty cells left out,
\* that no record of the table holds in that column.
BatchMinusStore(df, table, col) ==
    {v \in {df.rows[i][col] : i \in DOMAIN df.rows} :
        /\ v # NaN
        /\ \A n \in DOMAIN table : table[n][col] # v}

\* The call c has its novelty lists and has not yet worked on a row.
Identified(c, table) ==
    /\ c.new_items.new_channels = BatchMinusStore(c.df, table, "new_channel")
    /\ c.new_items.new_cots = BatchMinusStore(c.df, table, "new_cot")
    /\ c.i = 1
    /\ ~Pending(c.db)

Stored(table, df, i) ==
    \E k \in DOMAIN table :
        /\ table[k].ic_channel = RowGet(df, i, "ic_channel")
        /\ table[k].ic_cot = RowGet(df, i, "ic_cot")
        /\ table[k].new_channel = ToDb(RowGet(df, i, "new_channel"))
        /\ table[k].new_cot = ToDb(RowGet(df, i, "new_cot"))

\* C21: in process_excel_data the error of a row does not leave the procedure
\* and does not end the batch: the row is counted in records_skipped and adds
\* nothing to the session, the loop goes on with the next row, and once the
\* batch is committed the table holds every other row and nothing of the row
\* that raised.
C21_RowErrorContained ==
    /\ [][(UploadRow /\ LookupRaises(up.df, up.i))
            => /\ up'.pc = IF up.i < Len(up.df.rows) THEN "rows" ELSE "commit"
               /\ up'.i = up.i + 1
               /\ up'.exc = NoExc
               /\ up'.records_skipped = up.records_skipped + 1
               /\ up'.records_inserted = up.records_inserted
               /\ up'.records_updated = up.records_updated
               /\ up'.db = up.db]_vars
    /\ [](UploadIngested =>
            /\ \A i \in DOMAIN up.df.rows :
                  Kept(up.df, i) => Stored(cot_mappings, up.df, i)
            /\ \A k \in DOMAIN cot_mappings :
                  BAD \notin {cot_mappings[k].ic_channel, cot_mappings[k].ic_cot}
            /\ up.result.records_skipped
                  >= Cardinality({i \in DOMAIN up.df.rows : LookupRaises(up.df, i)}))

\* A committed batch of two rows: the first raised and was skipped, the second
\* was inserted.
C21_Witness ==
    /\ UploadIngested
    /\ Len(up.df.rows) = 2
    /\ LookupRaises(up.df, 1)
    /\ ~LookupRaises(up.df, 2) /\ ~MissingIdentity(up.df, 2)
    /\ up.result.records_skipped = 1
    /\ up.result.records_inserted = 1
    /\ Len(cot_mappings) = Len(up.table0) + 1
    /\ Stored(cot_mappings, up.df, 2)

\* C22: every SUCCESS entry the polling path writes accounts for all the rows of
\* its batch: records_inserted + records_updated + records_skipped =
\* total_records, also when rows raised or lacked an identity key.
C22_PollCountsAddUp ==
    \A k \in DOMAIN processing_logs :
        processing_logs[k].processing_status = "SUCCESS" =>
            processing_logs[k].records_inserted + processing_logs[k].records_updated
                + processing_logs[k].records_skipped
              = processing_logs[k].total_records

OnlyLastCheckSet(old, new) ==
    /\ DOMAIN new = DOMAIN old
    /\ \A k \in DOMAIN old :
          IF old[k].enabled
          THEN new[k] = [old[k] EXCEPT !.last_check = new[k].last_check]
          ELSE new[k] = old[k]

C26_ReadOnlyAfterFetch ==
    \A k \in DOMAIN mailbox :
        /\ mailbox[k].seen => mailbox[k].fetch = "ok"
        /\ mailbox[k].fetch \in {"no", "unparsed"} => ~mailbox[k].seen

\* The entries of logs, in order, that are not older than days.
NotOlderThan(logs, days) ==
    SelectSeq(logs, LAMBDA l : ~(l.processed_at > days))

\* The first sequence is the beginning of the second.
IsPrefix(a, b) == Len(a) <= Len(b) /\ a = SubSeq(b, 1, Len(a))

\* C24: a committed ProcessingLog entry is never modified, and it is deleted by
\* cleanup_old_logs(days) only, which deletes exactly the entries whose
\* processed_at is earlier than days before now, keeps the others and returns
\* the number of entries it deleted.
C24_LogsImmutable ==
    [][IF cleanup_logs("r1")
       THEN /\ processing_logs' = NotOlderThan(processing_logs, req'["r1"].days)
               \/ (req'["r1"].status = 500 /\ processing_logs' = processing_logs)
            /\ req'["r1"].status = 200 =>
                  req'["r1"].body.deleted = Len(processing_logs) - Len(processing_logs')
       ELSE IsPrefix(processing_logs, processing_logs')]_vars

\* A sweep of one day has deleted the entry of 31 days ago and has kept the entry
\* written a day ago, at the cutoff, and the entries of the upload and of the mail.
C24_Witness ==
    /\ req["r1"].status = 200 /\ req["r1"].days = 1 /\ req["r1"].body.deleted = 1
    /\ Len(processing_logs) = 3
    /\ processing_logs[1].processed_at = 1
    /\ processing_logs[2].processed_at = 0 /\ processing_logs[3].processed_at = 0
    /\ up.pc = "returned"

\* C25: within a polling cycle the novelty of each attachment is computed against
\* the store as committed when the ingest of that attachment starts: for the
\* second and later attachments of a cycle the lists are the non-null new values
\* of the attachment minus the values persisted once the earlier attachments
\* were committed, not minus the store of the start of the cycle.
C25_NoveltyPerAttachment ==
    [][\A w \in Workers :
        (/\ ProcessAttachment(w)
         /\ wk[w].pc = "attached"
         /\ wk'[w].pc \in {"rows", "commit"})
            => /\ wk'[w].new_items.new_channels
                     = BatchMinusStore(wk'[w].df, cot_mappings, "new_channel")
               /\ wk'[w].new_items.new_cots
                     = BatchMinusStore(wk'[w].df, cot_mappings, "new_cot")]_vars

\* The second attachment of a cycle finds no novel channel, the first attachment
\* having committed its channel, which was not in the store when the cycle began.
C25_Witness ==
    /\ wk["w1"].pc = "rows" /\ wk["w1"].i = 1
    /\ wk["w1"].todo = <<>>
    /\ Len(processing_logs) = 1 /\ processing_logs[1].processing_status = "SUCCESS"
    /\ processing_logs[1].new_channels_list # {}
    /\ wk["w1"].new_items.new_channels = {}
    /\ BatchMinusStore(wk["w1"].df, wk["w1"].cycle0, "new_channel") # {}

\* The key of the record is the key of a row of df that the path did not skip.
KeyInBatch(record, df, skips) ==
    \E i \in DOMAIN df.rows :
        /\ ~LookupRaises(df, i)
        /\ skips => ~isna(RowGet(df, i, "ic_channel")) /\ ~isna(RowGet(df, i, "ic_cot"))
        /\ SqlEq(record.ic_channel, RowGet(df, i, "ic_channel"))
        /\ SqlEq(record.ic_cot, RowGet(df, i, "ic_cot"))

\* What the commit of the ingest c may do to the table: the records stay where
\* they are, those it changes keep their key, which is a key of the batch, and
\* as many records are added as the ingest counted inserts.
FrameOfIngest(c, skips) ==
    /\ Len(cot_mappings') = Len(cot_mappings) + c.records_inserted
    /\ \A k \in DOMAIN cot_mappings :
          cot_mappings'[k] # cot_mappings[k] =>
              /\ cot_mappings'[k].ic_channel = cot_mappings[k].ic_channel
              /\ cot_mappings'[k].ic_cot = cot_mappings[k].ic_cot
              /\ KeyInBatch(cot_mappings[k], c.df, skips)

\* C27: an ingest changes only records whose identity key occurs in a row of the
\* batch that was not skipped; every other record stays as it is, no record is
\* deleted, and the successful ingest leaves as many records as there were plus
\* records_inserted.
C27_IngestFrame ==
    [][/\ (UploadCommit /\ up'.result.returned) => FrameOfIngest(up, TRUE)
       /\ \A w \in Workers :
            (PollCommit(w) /\ wk'[w].result.returned) => FrameOfIngest(wk[w], FALSE)
       /\ cot_mappings' # cot_mappings =>
             \/ UploadCommit /\ up'.result.returned
             \/ \E w \in Workers : PollCommit(w) /\ wk'[w].result.returned]_vars

\* Both paths have ingested a row of the key of the first record: that record
\* has changed, the record of another key has not, and none was added.
C27_Witness ==
    /\ up.result.returned /\ wk["w1"].result.returned
    /\ up.result.records_updated = 1 /\ wk["w1"].result.records_updated = 1
    /\ Len(up.table0) = 2 /\ Len(cot_mappings) = 2
    /\ cot_mappings[1] # up.table0[1]
    /\ cot_mappings[2] = up.table0[2]

\* The worker is inside process_excel_attachment.
Ingesting(w) ==
    wk[w].pc \in {"rows", "commit", "log", "notify", "handler", "notify_error"}

\* C28: on the polling path a message is marked read before any of its
\* attachments is ingested, and it is returned to the ingest path at most once:
\* a message whose attachment ingest failed is not fetched again by a later cycle.
C28_HandedOnce ==
    /\ \A k \in DOMAIN mailbox :
          /\ mailbox[k].handed <= 1
          /\ mailbox[k].handed = 1 => mailbox[k].seen
    /\ \A w \in Workers :
          Ingesting(w) =>
              \E k \in DOMAIN mailbox :
                  /\ mailbox[k].seen
                  /\ \E a \in DOMAIN mailbox[k].attachments :
                        mailbox[k].attachments[a] = wk[w].file

\* The ingest of both attachments of a message failed, each with its ERROR
\* entry, and a later cycle has searched the folder without taking the message.
C28_Witness ==
    /\ Len(processing_logs) = 2
    /\ \A k \in DOMAIN processing_logs : processing_logs[k].processing_status = "ERROR"
    /\ mailbox[1].handed = 1
    /\ mailbox[1].later
    /\ wk["w1"].pc = "sleep"

\* The mailbox check of the cycle was committed: the session of the cycle was in
\* order when the first attachment was taken.
CheckCommitted ==
    \A k \in DOMAIN email_config : email_config[k].enabled => email_config[k].last_check = "set"

\* C29: within a polling cycle a failure while ingesting one attachment does not
\* end the cycle: the remaining attachments are still passed to
\* process_excel_attachment and each gets its own log entry, also the attachment
\* that finds the session as the failed ingest left it.
C29_RemainingAttachmentsLogged ==
    \A w \in Workers :
        (/\ CheckCommitted
         /\ wk[w].pc = "attached"
         /\ wk[w].exc = Exc("PendingRollbackError"))
            => Len(processing_logs) - wk[w].logs0 = 1

\* The entry carries the counts and the lists of the result the ingest returned.
LogOfResult(log, result) ==
    /\ result.returned
    /\ log.total_records = result.total_records
    /\ log.records_inserted = result.records_inserted
    /\ log.records_updated = result.records_updated
    /\ log.new_channels_found = result.new_channels_found
    /\ log.new_cots_found = result.new_cots_found
    /\ log.new_channels_list = result.new_channels
    /\ log.new_cots_list = result.new_cots
    /\ log.new_channels_found = Cardinality(log.new_channels_list)
    /\ log.new_cots_found = Cardinality(log.new_cots_list)

\* The session of the call has no mapping write waiting for a commit.
MappingsCommitted(c) == DOMAIN c.db.dirty = {} /\ c.db.new = <<>>

\* C30: on both paths a SUCCESS entry is written only once the mapping writes of
\* the batch are committed, and its total_records, records_inserted,
\* records_updated, new_channels_found and new_cots_found are those of the
\* returned result, the two latter being the lengths of the stored lists.
C30_SuccessLogAfterCommit ==
    [][(/\ Len(processing_logs') > Len(processing_logs)
        /\ processing_logs'[Len(processing_logs')].processing_status = "SUCCESS")
          => /\ Len(processing_logs') = Len(processing_logs) + 1
             /\ \/ /\ UploadLog
                   /\ MappingsCommitted(up)
                   /\ LogOfResult(processing_logs'[Len(processing_logs')], up.result)
                \/ \E w \in Workers :
                      /\ PollLog(w)
                      /\ MappingsCommitted(wk[w])
                      /\ LogOfResult(processing_logs'[Len(processing_logs')],
                                     wk[w].result)]_vars

\* Both paths have written their SUCCESS entry, the upload for a batch with a
\* novel channel that it inserted, the worker for the batch that updated it.
C30_Witness ==
    /\ Len(processing_logs) = 2
    /\ processing_logs[1].processing_status = "SUCCESS"
    /\ processing_logs[1].email_sender = "manual_upload"
    /\ processing_logs[1].new_channels_found = 1
    /\ processing_logs[1].records_inserted = 1
    /\ processing_logs[2].processing_status = "SUCCESS"
    /\ processing_logs[2].email_sender = "sender"
    /\ processing_logs[2].records_updated = 1
    /\ processing_logs[2].new_channels_found = 0
    /\ Len(cot_mappings) = 1

====
